---- MODULE Spec2Model ----
(***************************************************************************)
(* A model of examples/ggwave-large-message/ggwave_large_message.py:       *)
(* the chunk splitter (split_message) as a loop-level state machine, and   *)
(* the command line entry point with the orchestrator                      *)
(* (main, process_large_message) together with the helpers they call.      *)
(*                                                                         *)
(* Characters are Unicode code points (integers); a string is a sequence   *)
(* of code points.  File paths are strings; a path that splitext() is      *)
(* applied to is kept as a record [base, ext].                             *)
(***************************************************************************)
EXTENDS Integers, Sequences, FiniteSets, TLC

(***************************************************************************)
(* Bounds of the model                                                     *)
(***************************************************************************)
\* longest message handed to split_message by the splitter harness
MaxLen == 4
\* longest message of the harness when termination is checked
MaxLiveLen == 3
\* largest chunk limit tried by the splitter harness
MaxLimit == 5
\* the harness also tries the limits -MaxNegLimit .. -1
MaxNegLimit == 1

(***************************************************************************)
(* Program constants                                                       *)
(***************************************************************************)
CHUNK_SIZE == 600

\* code points: '\n', ' ', 'a' (1 byte), e-acute (2 bytes), euro sign
\* (3 bytes), grinning face emoji (4 bytes)
NEWLINE == 10
SPACE == 32
Chars == {NEWLINE, SPACE, 97, 233, 8364, 128512}

(***************************************************************************)
(* Python built-ins used by split_message                                  *)
(***************************************************************************)
\* len(c.encode('utf-8')) of one code point
Utf8Width(c) ==
    IF c < 128 THEN 1
    ELSE IF c < 2048 THEN 2
    ELSE IF c < 65536 THEN 3
    ELSE 4

\* len(s.encode('utf-8')): the sum of the widths, summed by halves
RECURSIVE Utf8Len(_)
Utf8Len(s) ==
    IF Len(s) = 0 THEN 0
    ELSE IF Len(s) = 1 THEN Utf8Width(s[1])
    ELSE LET h == Len(s) \div 2
         IN  Utf8Len(SubSeq(s, 1, h)) + Utf8Len(SubSeq(s, h + 1, Len(s)))

\* one bound of a slice, as Python normalises it: a negative bound counts
\* from the end, and the outcome is clamped to 0 .. len
SliceBound(n, k) ==
    LET k1 == IF k < 0 THEN k + n ELSE k
    IN  IF k1 < 0 THEN 0 ELSE IF k1 > n THEN n ELSE k1

\* s[a:b]
PySlice(s, a, b) ==
    LET lo == SliceBound(Len(s), a)
        hi == SliceBound(Len(s), b)
    IN  IF lo < hi THEN SubSeq(s, lo + 1, hi) ELSE <<>>

\* a slip: the message is split as it came
StrReplace_none(s, old, new) == s

\* s.replace(old, new) for single characters
StrReplace(s, old, new) ==
    [k \in 1..Len(s) |-> IF s[k] = old THEN new ELSE s[k]]

(***************************************************************************)
(* split_message, as a function                                            *)
(***************************************************************************)
\* a slip: the limit compared with the number of characters, not of bytes
NeedsTrim_chars(potential, size) == Len(potential) > size

\* line 53: the inner loop's test
NeedsTrim(potential, size) == Utf8Len(potential) > size

\* a slip: the position advanced by the limit, not by what was kept
AppendAdvance_bySize(chunk, size) == size

\* line 58: by how much current_pos advances past a chunk
AppendAdvance(chunk, size) == Len(chunk)

\* a slip: the oversized character is not stepped over
SkipAdvance_stay(pos) == pos

\* line 62: current_pos after the oversized character is skipped
SkipAdvance(pos) == pos + 1

\* lines 53-54, the inner while loop: drop the last character until the
\* bytes fit
RECURSIVE TrimToFit(_, _)
TrimToFit(potential, size) ==
    IF NeedsTrim(potential, size)
    THEN TrimToFit(PySlice(potential, 0, -1), size)
    ELSE potential

\* lines 48-62, the outer while loop from position pos with the chunks
\* found so far
RECURSIVE SplitFrom(_, _, _, _)
SplitFrom(msg, size, pos, acc) ==
    IF pos < Len(msg)
    THEN LET potential == TrimToFit(PySlice(msg, pos, pos + size), size)
         IN  IF potential # <<>>
             THEN SplitFrom(msg, size, pos + AppendAdvance(potential, size),
                            Append(acc, potential))
             ELSE SplitFrom(msg, size, SkipAdvance(pos), acc)
    ELSE acc

\* defined for size >= 0 (for size < 0 the inner loop does not end)
split_message(msg, size) ==
    SplitFrom(StrReplace(msg, NEWLINE, SPACE), size, 0, <<>>)

(***************************************************************************)
(* State                                                                   *)
(***************************************************************************)
VARIABLES
    \* split_message, one call, loop by loop
    s_input,          \* the message argument
    chunk_size,       \* the chunk_size argument
    s_message,        \* the local message after replace()
    s_chunks,         \* chunks
    current_pos,      \* current_pos
    potential_chunk,  \* potential_chunk
    s_pc,             \* "call", "outer", "inner", "done"
    candidate_len,    \* history: len(potential_chunk) when the slice was taken
    trim_steps,       \* history: inner-loop iterations since the slice was taken
    \* the process: main and process_large_message
    USE_GGWAVE_MODULE, \* the global set by the import at start-up
    args,             \* the parsed command line
    input_text,       \* what the input file (or stdin) holds
    pc,               \* where the process is
    message,          \* main's message, once read
    input_read,       \* history: the input was read
    chunks,           \* process_large_message's chunks
    chunk_files,      \* chunk_files
    to_combine,       \* the list handed to combine_wav_files
    temp_dir,         \* "none", "exists" or "removed"
    temp_files,       \* the files in temp_dir: name -> content
    out_files,        \* the files at the output location: path -> content
    video_temp,       \* create_video_from_wav's own directory: "none", "removed", "left"
    encoded,          \* history: the chunk indices handed to the encoder
    last_op,          \* history: the last encode operation
    silence_made,     \* history: create_silence_wav was called
    combine_calls,    \* history: calls of combine_wav_files
    video_calls,      \* history: what each call of create_video_from_wav returned
    result,           \* process_large_message: "none", "True", "False", "raise"
    printed,          \* the warnings and errors printed
    protocol_lines,   \* the protocol entries printed by list_protocols
    exit_code         \* -1 while running, then the exit code

splitVars == <<s_input, chunk_size, s_message, s_chunks, current_pos,
               potential_chunk, s_pc, candidate_len, trim_steps>>

runVars == <<USE_GGWAVE_MODULE, args, input_text, pc, message, input_read,
             chunks, chunk_files, to_combine, temp_dir, temp_files, out_files,
             video_temp, encoded, last_op, silence_made, combine_calls,
             video_calls, result, printed, protocol_lines, exit_code>>

vars == <<splitVars, runVars>>

(***************************************************************************)
(* The splitter harness: split_message(message, chunk_size) on every       *)
(* message of at most MaxLen characters and every limit tried              *)
(***************************************************************************)
RECURSIVE SeqsUpTo(_, _)
SeqsUpTo(S, n) ==
    IF n = 0 THEN {<<>>}
    ELSE LET shorter == SeqsUpTo(S, n - 1)
         IN  shorter \cup {Append(s, c) : s \in {t \in shorter : Len(t) = n - 1}, c \in S}

Messages == SeqsUpTo(Chars, MaxLen)
LiveMessages == SeqsUpTo(Chars, MaxLiveLen)
Limits == (0 - MaxNegLimit)..MaxLimit

\* the inner loop of a negative limit never ends; the model follows it for
\* this many iterations
MaxTrimSteps == MaxLen + 2

\* the harness is not in use
SplitIdle ==
    /\ s_input = <<>>
    /\ chunk_size = CHUNK_SIZE
    /\ s_message = <<>>
    /\ s_chunks = <<>>
    /\ current_pos = 0
    /\ potential_chunk = <<>>
    /\ s_pc = "idle"
    /\ candidate_len = 0
    /\ trim_steps = 0

SplitStartOn(inputs) ==
    /\ s_input \in inputs
    /\ chunk_size \in Limits
    /\ s_message = <<>>
    /\ s_chunks = <<>>
    /\ current_pos = 0
    /\ potential_chunk = <<>>
    /\ s_pc = "call"
    /\ candidate_len = 0
    /\ trim_steps = 0

\* lines 43-46
SplitEnter ==
    /\ s_pc = "call"
    /\ s_message' = StrReplace(s_input, NEWLINE, SPACE)
    /\ s_chunks' = <<>>
    /\ current_pos' = 0
    /\ s_pc' = "outer"
    /\ UNCHANGED <<s_input, chunk_size, potential_chunk, candidate_len,
                   trim_steps>>
    /\ UNCHANGED runVars

\* lines 48-50: the outer loop's test, and the slice when it passes
SplitTake ==
    /\ s_pc = "outer"
    /\ current_pos < Len(s_message)
    /\ potential_chunk' = PySlice(s_message, current_pos, current_pos + chunk_size)
    /\ candidate_len' = Len(potential_chunk')
    /\ trim_steps' = 0
    /\ s_pc' = "inner"
    /\ UNCHANGED <<s_input, chunk_size, s_message, s_chunks, current_pos>>
    /\ UNCHANGED runVars

\* lines 48, 64: the outer loop's test fails, return chunks
SplitReturn ==
    /\ s_pc = "outer"
    /\ ~(current_pos < Len(s_message))
    /\ s_pc' = "done"
    /\ UNCHANGED <<s_input, chunk_size, s_message, s_chunks, current_pos,
                   potential_chunk, candidate_len, trim_steps>>
    /\ UNCHANGED runVars

\* lines 53-54: one iteration of the inner loop
SplitTrim ==
    /\ s_pc = "inner"
    /\ NeedsTrim(potential_chunk, chunk_size)
    /\ trim_steps < MaxTrimSteps
    /\ potential_chunk' = PySlice(potential_chunk, 0, -1)
    /\ trim_steps' = trim_steps + 1
    /\ UNCHANGED <<s_input, chunk_size, s_message, s_chunks, current_pos,
                   s_pc, candidate_len>>
    /\ UNCHANGED runVars

\* lines 56-58: the inner loop is over and left a chunk
SplitAppend ==
    /\ s_pc = "inner"
    /\ ~NeedsTrim(potential_chunk, chunk_size)
    /\ potential_chunk # <<>>
    /\ s_chunks' = Append(s_chunks, potential_chunk)
    /\ current_pos' = current_pos + AppendAdvance(potential_chunk, chunk_size)
    /\ s_pc' = "outer"
    /\ UNCHANGED <<s_input, chunk_size, s_message, potential_chunk,
                   candidate_len, trim_steps>>
    /\ UNCHANGED runVars

\* lines 59-62: the inner loop is over and left nothing
SplitSkip ==
    /\ s_pc = "inner"
    /\ ~NeedsTrim(potential_chunk, chunk_size)
    /\ potential_chunk = <<>>
    /\ current_pos' = SkipAdvance(current_pos)
    /\ s_pc' = "outer"
    /\ UNCHANGED <<s_input, chunk_size, s_message, s_chunks, potential_chunk,
                   candidate_len, trim_steps>>
    /\ UNCHANGED runVars

(***************************************************************************)
(* Files: a directory is a function from names to contents                 *)
(***************************************************************************)
NoFiles == <<>>
WavFile(frames) == [kind |-> "wav", frames |-> frames]
Mp4File(frames) == [kind |-> "mp4", frames |-> frames]
\* a file of zero bytes
EmptyFile == [kind |-> "empty", frames |-> <<>>]

Exists(files, n) == n \in DOMAIN files
WriteFile(files, n, c) ==
    [x \in DOMAIN files \cup {n} |-> IF x = n THEN c ELSE files[x]]
Unlink(files, n) == [x \in DOMAIN files \ {n} |-> files[x]]
\* os.rename(src, dst), src # dst: dst is replaced
Rename(files, src, dst) ==
    [x \in (DOMAIN files \ {src}) \cup {dst} |-> IF x = dst THEN files[src] ELSE files[x]]

(***************************************************************************)
(* Inputs of a run                                                         *)
(***************************************************************************)
\* the most chunks a message of the model splits into
MaxChunks == 3
\* samples per second in the model
SampleRate == 2
\* seconds of silence between two chunks in the model
PauseSeconds == 1

\* line 112: the binary strategy's subprocess timeout, in seconds
BINARY_TIMEOUT == 10

\* lines 25-38, by id
PROTOCOLS == [k \in 1..12 |-> [id |-> k - 1]]

Repeat(c, n) == [k \in 1..n |-> c]

\* the empty message, a short one with a newline and a two-byte character,
\* ASCII messages of 2 .. MaxChunks chunks, and a message of two-byte
\* characters that is one character over the limit in bytes
RunMessages ==
    {<<>>, <<97, NEWLINE, 233>>, Repeat(233, (CHUNK_SIZE \div 2) + 1)}
        \cup {Repeat(97, (k - 1) * CHUNK_SIZE + 1) : k \in 2..MaxChunks}

\* --timeout values, and how long an encode operation takes, in seconds
Timeouts == {5, 30}
Durations == {3, 7, 20, 40}
ProtocolIds == {-1, 11, 12}
Outputs == {[base |-> "output", ext |-> ".wav"], [base |-> "msg", ext |-> ".mp4"]}

Args ==
    [list_protocols : BOOLEAN, protocol : ProtocolIds, no_pauses : BOOLEAN,
     quiet : BOOLEAN, no_video : BOOLEAN, timeout : Timeouts, output : Outputs,
     pause_duration : {PauseSeconds}, sample_rate : {SampleRate}]

(***************************************************************************)
(* process_large_message: names                                            *)
(***************************************************************************)
\* args.output
output_file == args.output.base \o args.output.ext
\* line 472
create_video == ~args.no_video
\* line 469
add_pauses == ~args.no_pauses
\* line 318: os.path.splitext(output_file)[0]
base_output == args.output.base
\* line 319
wav_output == IF ~create_video THEN output_file ELSE base_output \o "_temp.wav"
\* line 320
video_output == base_output \o ".mp4"
\* line 329, inside temp_dir
ChunkFile(i) == "chunk_" \o ToString(i) \o ".wav"
\* lines 343, 386, inside temp_dir
SilenceFile == "silence.wav"

(***************************************************************************)
(* The encoder strategies.  The codec is external: the waveform of chunk i *)
(* is two samples that name the chunk.                                     *)
(***************************************************************************)
EncodedFrames(i) == <<i + 1, i + 1>>

\* lines 142-209.  signal.alarm(timeout) interrupts ggwave.encode once it
\* has run for timeout seconds (alarm(0) arms nothing); `raises`: the codec
\* raised.  The WAV is written after the alarm is reset.
generate_wav_for_chunk_with_module(i, timeout, duration, raises) ==
    IF timeout # 0 /\ duration > timeout
    THEN [ok |-> FALSE, ran |-> TRUE, timed_out |-> TRUE, file |-> "none"]
    ELSE IF raises
    THEN [ok |-> FALSE, ran |-> TRUE, timed_out |-> FALSE, file |-> "none"]
    ELSE [ok |-> TRUE, ran |-> TRUE, timed_out |-> FALSE, file |-> "wav"]

\* lines 83-140.  `found`: find_ggwave_binary() found an executable;
\* `written`: what the subprocess left at output_file ("none", "empty",
\* "wav").  subprocess.run is given timeout=10.
generate_wav_for_chunk_with_binary(i, found, duration, written) ==
    IF ~found
    THEN [ok |-> FALSE, ran |-> FALSE, timed_out |-> FALSE, file |-> "none"]
    ELSE IF duration > BINARY_TIMEOUT
    THEN [ok |-> FALSE, ran |-> TRUE, timed_out |-> TRUE, file |-> written]
    ELSE [ok |-> written = "wav", ran |-> TRUE, timed_out |-> FALSE, file |-> written]

\* lines 211-216
generate_wav_for_chunk(i, timeout, found, duration, written, raises) ==
    IF USE_GGWAVE_MODULE
    THEN generate_wav_for_chunk_with_module(i, timeout, duration, raises)
    ELSE generate_wav_for_chunk_with_binary(i, found, duration, written)

(***************************************************************************)
(* Silence, interleaving, combining                                        *)
(***************************************************************************)
\* lines 218-226: int(duration_seconds * sample_rate) zero samples
create_silence_wav(duration_seconds, sample_rate) ==
    WavFile([k \in 1..(duration_seconds * sample_rate) |-> 0])

\* a slip: silence after every chunk, the last one too
Interleave_afterEach(files, silence) ==
    [k \in 1..(2 * Len(files)) |-> IF k % 2 = 1 THEN files[(k + 1) \div 2] ELSE silence]

\* lines 347-351
RECURSIVE InterleaveFrom(_, _, _, _)
InterleaveFrom(files, silence, i, acc) ==
    IF i < Len(files)
    THEN LET a1 == Append(acc, files[i + 1])
             a2 == IF i < Len(files) - 1 THEN Append(a1, silence) ELSE a1
         IN  InterleaveFrom(files, silence, i + 1, a2)
    ELSE acc

Interleave(files, silence) == InterleaveFrom(files, silence, 0, <<>>)

\* lines 294-298: data, the frames of every file in turn
RECURSIVE ReadFrames(_, _)
ReadFrames(wav_files, files) ==
    IF wav_files = <<>> THEN <<>>
    ELSE files[Head(wav_files)].frames \o ReadFrames(Tail(wav_files), files)

\* lines 288-304.  wave.open(.., 'rb') raises on a file that is missing or
\* no WAV; with no input, params stays None, the output file is opened
\* (created, empty) and setparams(None) raises.
combine_wav_files(wav_files, files) ==
    IF \E k \in 1..Len(wav_files) :
           ~Exists(files, wav_files[k]) \/ files[wav_files[k]].kind # "wav"
    THEN [raised |-> TRUE, wrote |-> FALSE, out |-> EmptyFile]
    ELSE IF wav_files = <<>>
    THEN [raised |-> TRUE, wrote |-> TRUE, out |-> EmptyFile]
    ELSE [raised |-> FALSE, wrote |-> TRUE, out |-> WavFile(ReadFrames(wav_files, files))]

(***************************************************************************)
(* The video renderer                                                      *)
(***************************************************************************)
\* lines 228-286.  `installed`: ffmpeg -version ran; `rendered`: both ffmpeg
\* commands succeeded; `partial`: a failed run left something at video_file.
create_video_from_wav(files, wav_file, video_file, installed, rendered, partial) ==
    IF ~installed
    THEN [ok |-> FALSE, files |-> files]
    ELSE IF rendered
    THEN [ok |-> TRUE, files |-> WriteFile(files, video_file, Mp4File(files[wav_file].frames))]
    ELSE [ok |-> FALSE,
          files |-> IF partial THEN WriteFile(files, video_file, EmptyFile) ELSE files]

\* a slip: the intermediate WAV is left where it is
AfterVideoFailure_keep(files) == files

\* lines 374-375
AfterVideoFailure(files) ==
    IF wav_output # output_file THEN Rename(files, wav_output, output_file) ELSE files

\* lines 368-369
AfterVideoSuccess(files) ==
    IF Exists(files, wav_output) /\ wav_output # output_file
    THEN Unlink(files, wav_output)
    ELSE files

(***************************************************************************)
(* main and process_large_message                                          *)
(***************************************************************************)
NoOp == [strategy |-> "none", index |-> -1, ran |-> FALSE, duration |-> 0,
         timed_out |-> FALSE, ok |-> TRUE]

\* the process is not in use
RunIdle ==
    /\ USE_GGWAVE_MODULE = FALSE
    /\ args = [list_protocols |-> FALSE, protocol |-> 5, no_pauses |-> FALSE,
               quiet |-> FALSE, no_video |-> FALSE, timeout |-> 30,
               output |-> [base |-> "output", ext |-> ".wav"],
               pause_duration |-> PauseSeconds, sample_rate |-> SampleRate]
    /\ input_text = <<>>
    /\ pc = "idle"
    /\ message = <<>>
    /\ input_read = FALSE
    /\ chunks = <<>>
    /\ chunk_files = <<>>
    /\ to_combine = <<>>
    /\ temp_dir = "none"
    /\ temp_files = NoFiles
    /\ out_files = NoFiles
    /\ video_temp = "none"
    /\ encoded = <<>>
    /\ last_op = NoOp
    /\ silence_made = FALSE
    /\ combine_calls = <<>>
    /\ video_calls = <<>>
    /\ result = "none"
    /\ printed = {}
    /\ protocol_lines = 0
    /\ exit_code = -1

\* the process after parse_args (line 430)
RunStart ==
    /\ USE_GGWAVE_MODULE \in BOOLEAN
    /\ args \in Args
    /\ input_text \in RunMessages
    /\ pc = "main"
    /\ message = <<>>
    /\ input_read = FALSE
    /\ chunks = <<>>
    /\ chunk_files = <<>>
    /\ to_combine = <<>>
    /\ temp_dir = "none"
    /\ temp_files = NoFiles
    /\ out_files = NoFiles
    /\ video_temp = "none"
    /\ encoded = <<>>
    /\ last_op = NoOp
    /\ silence_made = FALSE
    /\ combine_calls = <<>>
    /\ video_calls = <<>>
    /\ result = "none"
    /\ printed = {}
    /\ protocol_lines = 0
    /\ exit_code = -1

\* lines 396-402: one line per protocol
list_protocols == Len(PROTOCOLS)

\* lines 433-435
MainListProtocols ==
    /\ pc = "main"
    /\ args.list_protocols
    /\ protocol_lines' = list_protocols
    /\ exit_code' = 0
    /\ pc' = "exited"
    /\ UNCHANGED <<USE_GGWAVE_MODULE, args, input_text, message, input_read,
                   chunks, chunk_files, to_combine, temp_dir, temp_files,
                   out_files, video_temp, encoded, last_op, silence_made,
                   combine_calls, video_calls, result, printed>>
    /\ UNCHANGED splitVars

\* a slip: the upper bound tested with > for >=
InvalidProtocol_offByOne(protocol) == protocol < 0 \/ protocol > Len(PROTOCOLS)

\* line 438
InvalidProtocol(protocol) == protocol < 0 \/ protocol >= Len(PROTOCOLS)

\* lines 438-440
MainBadProtocol ==
    /\ pc = "main"
    /\ ~args.list_protocols
    /\ InvalidProtocol(args.protocol)
    /\ printed' = printed \cup {"Error: Invalid protocol ID"}
    /\ exit_code' = 1
    /\ pc' = "exited"
    /\ UNCHANGED <<USE_GGWAVE_MODULE, args, input_text, message, input_read,
                   chunks, chunk_files, to_combine, temp_dir, temp_files,
                   out_files, video_temp, encoded, last_op, silence_made,
                   combine_calls, video_calls, result, protocol_lines>>
    /\ UNCHANGED splitVars

\* lines 443-460: the input is read
MainReadInput ==
    /\ pc = "main"
    /\ ~args.list_protocols
    /\ ~InvalidProtocol(args.protocol)
    /\ message' = input_text
    /\ input_read' = TRUE
    /\ pc' = "process"
    /\ UNCHANGED <<USE_GGWAVE_MODULE, args, input_text, chunks, chunk_files,
                   to_combine, temp_dir, temp_files, out_files, video_temp,
                   encoded, last_op, silence_made, combine_calls, video_calls,
                   result, printed, protocol_lines, exit_code>>
    /\ UNCHANGED splitVars

\* lines 463, 313-324: the call, the split, the temporary directory
PlmStart ==
    /\ pc = "process"
    /\ chunks' = split_message(message, CHUNK_SIZE)
    /\ temp_dir' = "exists"
    /\ chunk_files' = <<>>
    /\ pc' = "encode"
    /\ UNCHANGED <<USE_GGWAVE_MODULE, args, input_text, message, input_read,
                   to_combine, temp_files, out_files, video_temp, encoded,
                   last_op, silence_made, combine_calls, video_calls, result,
                   printed, protocol_lines, exit_code>>
    /\ UNCHANGED splitVars

\* a slip: the loop goes on after a chunk that failed
AbortsOn_never(success) == FALSE

\* line 337
AbortsOn(success) == ~success

\* lines 328-339: one pass of the chunk loop, i = len(chunk_files)
PlmEncodeChunk ==
    /\ pc = "encode"
    /\ Len(chunk_files) < Len(chunks)
    /\ \E found \in BOOLEAN, duration \in Durations,
          written \in {"none", "empty", "wav"}, raises \in BOOLEAN :
        LET i == Len(chunk_files)
            r == generate_wav_for_chunk(i, args.timeout, found, duration, written, raises)
        IN  /\ chunk_files' = Append(chunk_files, ChunkFile(i))
            /\ encoded' = Append(encoded, i)
            /\ temp_files' =
                   IF r.file = "none" THEN temp_files
                   ELSE WriteFile(temp_files, ChunkFile(i),
                                  IF r.file = "wav" THEN WavFile(EncodedFrames(i))
                                  ELSE EmptyFile)
            /\ last_op' = [strategy |-> IF USE_GGWAVE_MODULE THEN "module" ELSE "binary",
                           index |-> i,
                           ran |-> r.ran,
                           duration |-> IF r.ran THEN duration ELSE 0,
                           timed_out |-> r.timed_out,
                           ok |-> r.ok]
            /\ IF AbortsOn(r.ok)
               THEN /\ printed' = printed \cup {"Failed to process chunk"}
                    /\ result' = "False"
                    /\ pc' = "finally"
               ELSE /\ pc' = "encode"
                    /\ UNCHANGED <<printed, result>>
    /\ UNCHANGED <<USE_GGWAVE_MODULE, args, input_text, message, input_read,
                   chunks, to_combine, temp_dir, out_files, video_temp,
                   silence_made, combine_calls, video_calls, protocol_lines,
                   exit_code>>
    /\ UNCHANGED splitVars

\* lines 342-351: the loop is over, pauses are wanted
PlmAddPauses ==
    /\ pc = "encode"
    /\ ~(Len(chunk_files) < Len(chunks))
    /\ add_pauses /\ Len(chunks) > 1
    /\ temp_files' = WriteFile(temp_files, SilenceFile,
                               create_silence_wav(args.pause_duration, args.sample_rate))
    /\ silence_made' = TRUE
    /\ to_combine' = Interleave(chunk_files, SilenceFile)
    /\ pc' = "combine"
    /\ UNCHANGED <<USE_GGWAVE_MODULE, args, input_text, message, input_read,
                   chunks, chunk_files, temp_dir, out_files, video_temp,
                   encoded, last_op, combine_calls, video_calls, result,
                   printed, protocol_lines, exit_code>>
    /\ UNCHANGED splitVars

\* lines 342, 355-357: the loop is over, no pauses
PlmNoPauses ==
    /\ pc = "encode"
    /\ ~(Len(chunk_files) < Len(chunks))
    /\ ~(add_pauses /\ Len(chunks) > 1)
    /\ to_combine' = chunk_files
    /\ pc' = "combine"
    /\ UNCHANGED <<USE_GGWAVE_MODULE, args, input_text, message, input_read,
                   chunks, chunk_files, temp_dir, temp_files, out_files,
                   video_temp, encoded, last_op, silence_made, combine_calls,
                   video_calls, result, printed, protocol_lines, exit_code>>
    /\ UNCHANGED splitVars

\* lines 354, 357, 359-363, 377: the combined WAV; an exception leaves the
\* try block, the WAV-only run returns True
PlmCombine ==
    /\ pc = "combine"
    /\ LET r == combine_wav_files(to_combine, temp_files)
       IN  /\ combine_calls' = Append(combine_calls, to_combine)
           /\ out_files' = IF r.wrote THEN WriteFile(out_files, wav_output, r.out)
                           ELSE out_files
           /\ IF r.raised
              THEN result' = "raise" /\ pc' = "finally"
              ELSE IF create_video
              THEN result' = result /\ pc' = "video"
              ELSE result' = "True" /\ pc' = "finally"
    /\ UNCHANGED <<USE_GGWAVE_MODULE, args, input_text, message, input_read,
                   chunks, chunk_files, to_combine, temp_dir, temp_files,
                   video_temp, encoded, last_op, silence_made, video_calls,
                   printed, protocol_lines, exit_code>>
    /\ UNCHANGED splitVars

\* lines 363-377: the video, and what becomes of the intermediate WAV;
\* `cleaned`: create_video_from_wav could remove its own directory
PlmVideo ==
    /\ pc = "video"
    /\ \E installed \in BOOLEAN, rendered \in BOOLEAN, partial \in BOOLEAN,
          cleaned \in BOOLEAN :
        LET r == create_video_from_wav(out_files, wav_output, video_output,
                                       installed, rendered, partial)
            warn1 == IF installed /\ ~cleaned
                     THEN {"Warning: Could not clean up temporary files"} ELSE {}
            warn2 == IF r.ok THEN {}
                     ELSE {"Warning: Failed to create video, WAV file preserved"}
        IN  /\ video_calls' = Append(video_calls, r.ok)
            /\ video_temp' = IF ~installed THEN "none"
                             ELSE IF cleaned THEN "removed" ELSE "left"
            /\ out_files' = IF r.ok THEN AfterVideoSuccess(r.files)
                            ELSE AfterVideoFailure(r.files)
            /\ printed' = printed \cup warn1 \cup warn2
    /\ result' = "True"
    /\ pc' = "finally"
    /\ UNCHANGED <<USE_GGWAVE_MODULE, args, input_text, message, input_read,
                   chunks, chunk_files, to_combine, temp_dir, temp_files,
                   encoded, last_op, silence_made, combine_calls,
                   protocol_lines, exit_code>>
    /\ UNCHANGED splitVars

\* a slip: the silence file is forgotten
CleanupTargets_chunksOnly(files) == {files[k] : k \in 1..Len(files)}

\* lines 381-388: what the finally block unlinks, if it exists
CleanupTargets(files) == {files[k] : k \in 1..Len(files)} \cup {SilenceFile}

\* lines 379-388
PlmCleanupFiles ==
    /\ pc = "finally"
    /\ temp_files' = [n \in DOMAIN temp_files \ CleanupTargets(chunk_files) |-> temp_files[n]]
    /\ pc' = "rmdir"
    /\ UNCHANGED <<USE_GGWAVE_MODULE, args, input_text, message, input_read,
                   chunks, chunk_files, to_combine, temp_dir, out_files,
                   video_temp, encoded, last_op, silence_made, combine_calls,
                   video_calls, result, printed, protocol_lines, exit_code>>
    /\ UNCHANGED splitVars

\* lines 390-394: os.rmdir raises OSError on a directory that is not empty,
\* or when the system refuses (`oserror`)
PlmRmdir ==
    /\ pc = "rmdir"
    /\ \E oserror \in BOOLEAN :
        IF temp_files # NoFiles \/ oserror
        THEN /\ printed' = IF ~args.quiet
                           THEN printed \cup {"Warning: Could not remove temporary directory"}
                           ELSE printed
             /\ temp_dir' = temp_dir
        ELSE /\ temp_dir' = "removed"
             /\ printed' = printed
    /\ pc' = "returned"
    /\ UNCHANGED <<USE_GGWAVE_MODULE, args, input_text, message, input_read,
                   chunks, chunk_files, to_combine, temp_files, out_files,
                   video_temp, encoded, last_op, silence_made, combine_calls,
                   video_calls, result, protocol_lines, exit_code>>
    /\ UNCHANGED splitVars

\* line 478; an exception that reaches the top level ends the process
\* with code 1
MainExit ==
    /\ pc = "returned"
    /\ exit_code' = IF result = "True" THEN 0 ELSE 1
    /\ pc' = "exited"
    /\ UNCHANGED <<USE_GGWAVE_MODULE, args, input_text, message, input_read,
                   chunks, chunk_files, to_combine, temp_dir, temp_files,
                   out_files, video_temp, encoded, last_op, silence_made,
                   combine_calls, video_calls, result, printed, protocol_lines>>
    /\ UNCHANGED splitVars

Init == RunStart /\ SplitIdle

Next ==
    \/ MainListProtocols
    \/ MainBadProtocol
    \/ MainReadInput
    \/ PlmStart
    \/ PlmEncodeChunk
    \/ PlmAddPauses
    \/ PlmNoPauses
    \/ PlmCombine
    \/ PlmVideo
    \/ PlmCleanupFiles
    \/ PlmRmdir
    \/ MainExit

Spec == Init /\ [][Next]_vars

(***************************************************************************)
(* The splitter harness, as a specification                                *)
(***************************************************************************)
SplitInit == SplitStartOn(Messages) /\ RunIdle

SplitNext ==
    \/ SplitEnter
    \/ SplitTake
    \/ SplitReturn
    \/ SplitTrim
    \/ SplitAppend
    \/ SplitSkip

SplitSpec == SplitInit /\ [][SplitNext]_vars

\* the interpreter keeps running the loops: a step that can be taken is taken
FairSplitInit == SplitStartOn(LiveMessages) /\ RunIdle

FairSplitSpec == FairSplitInit /\ [][SplitNext]_vars /\ WF_vars(SplitNext)

(***************************************************************************)
(* Properties of split_message                                             *)
(***************************************************************************)
\* the concatenation of a sequence of strings
RECURSIVE Flatten(_)
Flatten(ss) == IF ss = <<>> THEN <<>> ELSE Head(ss) \o Flatten(Tail(ss))

\* the message with every newline replaced by a space
NewlineNormalized(m) == [k \in 1..Len(m) |-> IF m[k] = 10 THEN 32 ELSE m[k]]

\* the characters of m that fit in `size` bytes on their own
FitsAlone(c) == Utf8Width(c) <= chunk_size
Fitting(m) == SelectSeq(m, FitsAlone)

\* the function and the loop-level machine return the same chunks
SplitAgrees ==
    (s_pc = "done" /\ chunk_size >= 0) => s_chunks = split_message(s_input, chunk_size)

\* C1: for a limit L >= 1 every chunk is non-empty and at most L bytes of
\* UTF-8 long.
C1_ChunksWithinLimit ==
    chunk_size >= 1 =>
        \A k \in 1..Len(s_chunks) :
            /\ s_chunks[k] # <<>>
            /\ Utf8Len(s_chunks[k]) <= chunk_size

\* C1 witness: a finished split into several chunks, one of them cut short
\* of the limit in characters because of a multi-byte character.
C1_Witness ==
    /\ s_pc = "done"
    /\ chunk_size >= 2
    /\ Len(s_chunks) >= 2
    /\ \E k \in 1..Len(s_chunks) :
           Len(s_chunks[k]) < Utf8Len(s_chunks[k]) /\ trim_steps > 0

\* C2: the chunks, concatenated in order, are the newline-normalized message
\* without the characters that are wider than the limit on their own.
C2_ConcatReproduces ==
    s_pc = "done" => Flatten(s_chunks) = Fitting(NewlineNormalized(s_input))

\* C2 witness: a finished split of a message with a newline and an oversized
\* character, into several chunks.
C2_Witness ==
    /\ s_pc = "done"
    /\ Len(s_chunks) >= 2
    /\ \E k \in 1..Len(s_input) : s_input[k] = NEWLINE
    /\ \E k \in 1..Len(s_input) : Utf8Width(s_input[k]) > chunk_size
    /\ \E k \in 1..Len(s_input) : Utf8Width(s_input[k]) = 2 /\ chunk_size >= 2

\* C3 as stated: a message whose normalized byte length is within the limit
\* comes back as exactly one chunk, the normalized message.
C3_Original ==
    (s_pc = "done" /\ Utf8Len(NewlineNormalized(s_input)) <= chunk_size) =>
        s_chunks = <<NewlineNormalized(s_input)>>

\* C3 amended: a non-empty message whose normalized byte length is within
\* the limit comes back as exactly one chunk, the normalized message; the
\* empty message comes back as no chunk at all.
C3_OneChunk ==
    (s_pc = "done" /\ Utf8Len(NewlineNormalized(s_input)) <= chunk_size) =>
        IF s_input = <<>>
        THEN s_chunks = <<>>
        ELSE s_chunks = <<NewlineNormalized(s_input)>>

\* C3 witness: a finished split of a message with a newline and a
\* multi-byte character that fits in the limit.
C3_Witness ==
    /\ s_pc = "done"
    /\ Len(s_input) >= 2
    /\ Utf8Len(NewlineNormalized(s_input)) <= chunk_size
    /\ Len(s_input) < Utf8Len(s_input)
    /\ \E k \in 1..Len(s_input) : s_input[k] = NEWLINE

\* C10 as stated, its bound on the inner loop: for every integer limit the
\* trimming loop runs at most as many times as the candidate has characters.
C10_Original == trim_steps <= candidate_len

\* one pass of the outer loop moves the read position forward: by the
\* chunk's length, or by one when the trimming left nothing
OuterAdvances ==
    (s_pc = "inner" /\ s_pc' = "outer") =>
        /\ current_pos' >= current_pos + 1
        /\ current_pos' = current_pos +
               (IF potential_chunk = <<>> THEN 1 ELSE Len(potential_chunk))

\* C10 amended: for every message and every limit L >= 0 the call returns,
\* every pass of the outer loop moves the read position forward by at least
\* one character, and the trimming loop runs at most as many times as the
\* candidate has characters.
C10_Terminates ==
    /\ [](chunk_size >= 0 => <>(s_pc = "done"))
    /\ [](chunk_size >= 0 => trim_steps <= candidate_len)
    /\ [][chunk_size >= 0 => OuterAdvances]_vars

\* C10 witness: a call with a limit L >= 0 that returned after skipping an
\* oversized character and after trimming a candidate.
C10_Witness ==
    /\ s_pc = "done"
    /\ chunk_size >= 1
    /\ Len(Flatten(s_chunks)) < Len(s_message)
    /\ trim_steps > 0
    /\ s_chunks # <<>>

(***************************************************************************)
(* Properties of main and process_large_message                            *)
(***************************************************************************)
\* the silence of the configured duration
SilenceFrames == [k \in 1..(args.pause_duration * args.sample_rate) |-> 0]

\* the segments of N chunks: the chunk files in order, with one silence
\* between two neighbours when pauses are on and N > 1
ExpectedSegments ==
    LET N == Len(chunks)
    IN  IF add_pauses /\ N > 1
        THEN [k \in 1..(2 * N - 1) |->
                 IF k % 2 = 1 THEN ChunkFile((k - 1) \div 2) ELSE SilenceFile]
        ELSE [k \in 1..N |-> ChunkFile(k - 1)]

ExpectedFrames ==
    Flatten([k \in 1..Len(ExpectedSegments) |->
                IF ExpectedSegments[k] = SilenceFile THEN SilenceFrames
                ELSE IF add_pauses /\ Len(chunks) > 1 THEN EncodedFrames((k - 1) \div 2)
                ELSE EncodedFrames(k - 1)])

\* C4: when every chunk was encoded, the combiner is given the chunk WAVs in
\* chunk order, with exactly one silence between two neighbours (and none
\* first or last) when pauses are on and there are several chunks, and
\* without silence otherwise; the combined frames are the segments' frames
\* in that order.
C4_SegmentsInOrder ==
    combine_calls # <<>> =>
        /\ combine_calls = <<ExpectedSegments>>
        /\ (Len(chunks) >= 1 /\ (pc = "video" \/ ~create_video)) =>
               /\ Exists(out_files, wav_output)
               /\ out_files[wav_output] = WavFile(ExpectedFrames)
        /\ \A n \in DOMAIN out_files :
               out_files[n].kind = "wav" => out_files[n].frames = ExpectedFrames

\* C4 witness: three chunks combined with pauses.
C4_Witness ==
    /\ combine_calls # <<>>
    /\ Len(chunks) = 3
    /\ add_pauses
    /\ Len(combine_calls[1]) = 5
    /\ Exists(out_files, wav_output)
    /\ Len(out_files[wav_output].frames) = 3 * 2 + 2 * Len(SilenceFrames)

WarnRmdir == "Warning: Could not remove temporary directory"

CleanupKeepsResult == (pc \in {"finally", "rmdir"}) => (result' = result)

C6_AbortOnFirstFailure ==
    /\ encoded = [k \in 1..Len(encoded) |-> k - 1]
    /\ ~last_op.ok =>
           /\ result = "False"
           /\ Len(encoded) = last_op.index + 1
           /\ ~silence_made
           /\ combine_calls = <<>>
           /\ video_calls = <<>>
           /\ out_files = NoFiles
           /\ pc \in {"finally", "rmdir", "returned", "exited"}
           /\ pc = "exited" => exit_code = 1

\* C6 witness: the second of three chunks failed and the process exited.
C6_Witness ==
    /\ pc = "exited"
    /\ ~last_op.ok
    /\ last_op.index = 1
    /\ Len(chunks) = 3
    /\ exit_code = 1

\* C7: with video output on and the WAV combined, a successful rendering
\* leaves the MP4 as the only file at the output location, and a failed one
\* leaves the combined WAV at the requested path; either way the run
\* reports success and no <base>_temp.wav remains.
C7_VideoOutcome ==
    (create_video /\ video_calls # <<>>) =>
        /\ result = "True"
        /\ ~Exists(out_files, args.output.base \o "_temp.wav")
        /\ IF video_calls[1]
           THEN /\ DOMAIN out_files = {args.output.base \o ".mp4"}
                /\ out_files[args.output.base \o ".mp4"].kind = "mp4"
           ELSE /\ Exists(out_files, args.output.base \o args.output.ext)
                /\ out_files[args.output.base \o args.output.ext] = WavFile(ExpectedFrames)
        /\ pc = "exited" => exit_code = 0

\* C7 witness: the rendering failed and the run ended.
C7_Witness ==
    /\ pc = "exited"
    /\ create_video
    /\ video_calls = <<FALSE>>
    /\ Exists(out_files, output_file)
    /\ Len(chunks) >= 2

\* C8: with the list-protocols flag the process prints the 12 protocol
\* entries and exits 0; without it, a protocol id outside 0..11 makes the
\* process exit 1; in both cases no input is read, no temporary directory
\* is made, no encoder is called and no output file is made.
C8_ArgumentsFirst ==
    (args.list_protocols \/ args.protocol \notin 0..11) =>
        /\ ~input_read
        /\ temp_dir = "none"
        /\ encoded = <<>>
        /\ out_files = NoFiles
        /\ pc \in {"idle", "main", "exited"}
        /\ pc = "exited" =>
               IF args.list_protocols
               THEN exit_code = 0 /\ protocol_lines = 12
               ELSE exit_code = 1 /\ protocol_lines = 0

\* C8 witness: protocol id 12 was refused.
C8_Witness ==
    /\ pc = "exited"
    /\ ~args.list_protocols
    /\ args.protocol = 12
    /\ exit_code = 1

\* C9: an encode operation that runs longer than the caller's timeout is
\* interrupted and fails, and one that ends within it is not timed out,
\* whichever strategy is in use.
C9_CallerTimeoutEnforced ==
    last_op.ran =>
        /\ last_op.duration > args.timeout => (last_op.timed_out /\ ~last_op.ok)
        /\ last_op.duration <= args.timeout => ~last_op.timed_out

\* C11: when the run is over, a file is at the output location only if the
\* run returned success; a run that ended by a failure return or by an
\* exception left no file there, empty or partial.
C11_OutputOnlyOnSuccess ==
    (pc \in {"returned", "exited"} /\ result # "True") => out_files = NoFiles

====
